---- MODULE Spec2Model ----
(***************************************************************************)
(* Personal expense tracker (src/expense_tracker.py): one interactive      *)
(* process holding a ledger (list of expense dicts) and an optional        *)
(* budget, persisted to expenses.csv.                                       *)
(*                                                                         *)
(* Representation of values                                                *)
(*   float      [k, v]: k = "num" with v the value in thousandths (mills), *)
(*              k = "nan", or k = "inf" with v the sign (1 or -1).         *)
(*              Python's None is [k |-> "none"].                           *)
(*   date text  the dash-separated numeric fields, <<2024, 2, 29>>;        *)
(*              <<>> is the empty string, any other length is a string     *)
(*              that does not have the shape %Y-%m-%d.                     *)
(*   amount text  [t, n, scale]: t = "dec" is the decimal literal          *)
(*              n * 10^-scale ("12.50" is n = 1250, scale = 2); otherwise   *)
(*              t is the word itself ("", "abc", "nan", "inf", "-inf").    *)
(*   other text a sequence of characters, so that str.strip is computed.   *)
(* Date and amount texts are modelled as already trimmed.                  *)
(***************************************************************************)
EXTENDS Integers, Sequences, FiniteSets, TLC

VARIABLES ledger, budget, file, pc, io

vars == <<ledger, budget, file, pc, io>>

\* Bounds of the model.
MaxLedger == 3
MaxFileRows == 2

CSV_HEADERS == <<"date", "category", "amount", "description">>

-----------------------------------------------------------------------------
\* Floating-point values.

Num(m) == [k |-> "num", v |-> m]
NaN == [k |-> "nan", v |-> 0]
Inf(s) == [k |-> "inf", v |-> s]
None == [k |-> "none", v |-> 0]

\* a > b on floats: false when either side is nan.
FGt(a, b) ==
    /\ a.k # "nan"
    /\ b.k # "nan"
    /\ IF a.k = "inf" /\ b.k = "inf" THEN a.v > b.v
       ELSE IF a.k = "inf" THEN a.v > 0
       ELSE IF b.k = "inf" THEN b.v < 0
       ELSE a.v > b.v

\* a <= b on floats: false when either side is nan.
FLe(a, b) == a.k # "nan" /\ b.k # "nan" /\ ~FGt(a, b)

FNeg(a) == IF a.k = "nan" THEN NaN ELSE [a EXCEPT !.v = 0 - a.v]

FAdd(a, b) ==
    IF a.k = "nan" \/ b.k = "nan" THEN NaN
    ELSE IF a.k = "inf" /\ b.k = "inf" THEN (IF a.v = b.v THEN a ELSE NaN)
    ELSE IF a.k = "inf" THEN a
    ELSE IF b.k = "inf" THEN b
    ELSE Num(a.v + b.v)

FSub(a, b) == FAdd(a, FNeg(b))

\* Nearest multiple of 0.01 of a value in mills. A decimal half is a true
\* half only when the double is exact (the multiples of 0.125), and is then
\* rounded to even; the model's inputs have no other halves.
RoundMills(m) ==
    LET q == m \div 10
        r == m % 10
    IN  IF r < 5 THEN 10 * q
        ELSE IF r > 5 THEN 10 * (q + 1)
        ELSE IF q % 2 = 0 THEN 10 * q ELSE 10 * (q + 1)

\* round(x, 2): nan and the infinities round to themselves.
round2(x) == IF x.k = "num" THEN Num(RoundMills(x.v)) ELSE x

-----------------------------------------------------------------------------
\* Texts.

Dec(n, s) == [t |-> "dec", n |-> n, scale |-> s]
Word(w) == [t |-> w, n |-> 0, scale |-> 0]

Pow10(e) == IF e = 0 THEN 1 ELSE IF e = 1 THEN 10 ELSE IF e = 2 THEN 100 ELSE 1000

\* float(s) raises ValueError unless s is a decimal literal, nan or an infinity.
ParsesAsFloat(s) == s.t \in {"dec", "nan", "inf", "-inf"}

float(s) ==
    IF s.t = "dec" THEN Num(s.n * Pow10(3 - s.scale))
    ELSE IF s.t = "nan" THEN NaN
    ELSE IF s.t = "inf" THEN Inf(1)
    ELSE Inf(-1)

\* f"{x:.1f}" in place of f"{x:.2f}".
format2f_OneDigit(x) ==
    IF x.k = "num" THEN Dec(RoundMills(x.v) \div 100, 1)
    ELSE IF x.k = "nan" THEN Word("nan")
    ELSE IF x.v > 0 THEN Word("inf") ELSE Word("-inf")

\* f"{x:.2f}"
format2f(x) ==
    IF x.k = "num" THEN Dec(RoundMills(x.v) \div 10, 2)
    ELSE IF x.k = "nan" THEN Word("nan")
    ELSE IF x.v > 0 THEN Word("inf") ELSE Word("-inf")

RECURSIVE lstrip(_)
lstrip(s) == IF s # <<>> /\ Head(s) = " " THEN lstrip(Tail(s)) ELSE s

RECURSIVE rstrip(_)
rstrip(s) ==
    IF s # <<>> /\ s[Len(s)] = " " THEN rstrip(SubSeq(s, 1, Len(s) - 1)) ELSE s

\* str.strip()
strip(s) == rstrip(lstrip(s))

IsLeap(y) == (y % 4 = 0 /\ y % 100 # 0) \/ y % 400 = 0

DaysInMonth(y, m) ==
    IF m = 2 THEN (IF IsLeap(y) THEN 29 ELSE 28)
    ELSE IF m \in {4, 6, 9, 11} THEN 30 ELSE 31

is_valid_date(date_str) ==
    /\ Len(date_str) = 3
    /\ date_str[1] \in 1..9999
    /\ date_str[2] \in 1..12
    /\ date_str[3] \in 1..DaysInMonth(date_str[1], date_str[2])

is_complete_expense(exp) ==
    /\ \A i \in 1..Len(CSV_HEADERS) : CSV_HEADERS[i] \in DOMAIN exp
    /\ exp.date # <<>>
    /\ exp.category # <<>>
    /\ exp.amount # None
    /\ exp.description # <<>>

-----------------------------------------------------------------------------
\* Operations on the ledger.

\* add_expense appending before the description is checked.
add_expense_AppendsEarly(expenses, date, category_in, amount_str, description_in) ==
    LET category == strip(category_in)
        description == strip(description_in)
        amount == float(amount_str)
        appended == Append(expenses,
                           [date |-> date,
                            category |-> category,
                            amount |-> round2(amount),
                            description |-> <<"?">>])
    IN  IF ~is_valid_date(date)
            THEN [expenses |-> expenses, msg |-> "Invalid date format"]
        ELSE IF category = <<>>
            THEN [expenses |-> expenses, msg |-> "Category cannot be empty"]
        ELSE IF ~ParsesAsFloat(amount_str)
            THEN [expenses |-> expenses, msg |-> "Amount must be a valid number"]
        ELSE IF FLe(amount, Num(0))
            THEN [expenses |-> expenses, msg |-> "Amount must be greater than 0"]
        ELSE IF description = <<>>
            THEN [expenses |-> appended, msg |-> "Description cannot be empty"]
        ELSE [expenses |-> Append(expenses,
                                  [date |-> date,
                                   category |-> category,
                                   amount |-> round2(amount),
                                   description |-> description]),
              msg |-> "Expense added successfully"]

\* add_expense inserting the new record at the front of the list.
add_expense_Prepends(expenses, date, category_in, amount_str, description_in) ==
    LET category == strip(category_in)
        description == strip(description_in)
        amount == float(amount_str)
    IN  IF ~is_valid_date(date)
            THEN [expenses |-> expenses, msg |-> "Invalid date format"]
        ELSE IF category = <<>>
            THEN [expenses |-> expenses, msg |-> "Category cannot be empty"]
        ELSE IF ~ParsesAsFloat(amount_str)
            THEN [expenses |-> expenses, msg |-> "Amount must be a valid number"]
        ELSE IF FLe(amount, Num(0))
            THEN [expenses |-> expenses, msg |-> "Amount must be greater than 0"]
        ELSE IF description = <<>>
            THEN [expenses |-> expenses, msg |-> "Description cannot be empty"]
        ELSE [expenses |-> <<[date |-> date,
                              category |-> category,
                              amount |-> round2(amount),
                              description |-> description]>> \o expenses,
              msg |-> "Expense added successfully"]

\* add_expense without the check of the description.
add_expense_NoDescriptionCheck(expenses, date, category_in, amount_str, description_in) ==
    LET category == strip(category_in)
        description == strip(description_in)
        amount == float(amount_str)
    IN  IF ~is_valid_date(date)
            THEN [expenses |-> expenses, msg |-> "Invalid date format"]
        ELSE IF category = <<>>
            THEN [expenses |-> expenses, msg |-> "Category cannot be empty"]
        ELSE IF ~ParsesAsFloat(amount_str)
            THEN [expenses |-> expenses, msg |-> "Amount must be a valid number"]
        ELSE IF FLe(amount, Num(0))
            THEN [expenses |-> expenses, msg |-> "Amount must be greater than 0"]
        ELSE [expenses |-> Append(expenses,
                                  [date |-> date,
                                   category |-> category,
                                   amount |-> round2(amount),
                                   description |-> description]),
              msg |-> "Expense added successfully"]

\* add_expense: the ledger after the call and the message printed.
add_expense(expenses, date, category_in, amount_str, description_in) ==
    LET category == strip(category_in)
        description == strip(description_in)
        amount == float(amount_str)
    IN  IF ~is_valid_date(date)
            THEN [expenses |-> expenses, msg |-> "Invalid date format"]
        ELSE IF category = <<>>
            THEN [expenses |-> expenses, msg |-> "Category cannot be empty"]
        ELSE IF ~ParsesAsFloat(amount_str)
            THEN [expenses |-> expenses, msg |-> "Amount must be a valid number"]
        ELSE IF FLe(amount, Num(0))
            THEN [expenses |-> expenses, msg |-> "Amount must be greater than 0"]
        ELSE IF description = <<>>
            THEN [expenses |-> expenses, msg |-> "Description cannot be empty"]
        ELSE [expenses |-> Append(expenses,
                                  [date |-> date,
                                   category |-> category,
                                   amount |-> round2(amount),
                                   description |-> description]),
              msg |-> "Expense added successfully"]

\* view_expenses: the 1-based indexes printed and those reported as skipped.
view_expenses(expenses) ==
    LET shown == {i \in 1..Len(expenses) : is_complete_expense(expenses[i])}
        skipped == (1..Len(expenses)) \ shown
    IN  [shown |-> shown,
         skipped |-> skipped,
         msg |-> IF expenses = <<>> THEN "No expenses recorded yet"
                 ELSE IF shown = {} THEN "No complete expense entries to display"
                 ELSE "All Expenses"]

RECURSIVE SumAmounts(_)
SumAmounts(expenses) ==
    IF expenses = <<>> THEN Num(0)
    ELSE LET rest == SumAmounts(SubSeq(expenses, 1, Len(expenses) - 1))
             exp == expenses[Len(expenses)]
         IN  IF is_complete_expense(exp) THEN FAdd(rest, exp.amount) ELSE rest

total_expenses(expenses) == round2(SumAmounts(expenses))

\* set_budget: the budget, or None after a message.
set_budget(budget_str) ==
    IF ~ParsesAsFloat(budget_str) THEN None
    ELSE IF FLe(float(budget_str), Num(0)) THEN None
    ELSE round2(float(budget_str))

\* track_budget asking for the budget on every call.
track_budget_Reprompts(expenses, b, budget_str) ==
    LET bb == set_budget(budget_str)
        spent == total_expenses(expenses)
    IN  IF bb = None
            THEN [budget |-> None, msg |-> "invalid budget",
                  spent |-> None, remaining |-> None]
        ELSE IF FGt(spent, bb)
            THEN [budget |-> bb, msg |-> "exceeded",
                  spent |-> spent, remaining |-> None]
        ELSE [budget |-> bb, msg |-> "left",
              spent |-> spent, remaining |-> round2(FSub(bb, spent))]

\* track_budget: the value returned and what was printed.
track_budget(expenses, b, budget_str) ==
    LET bb == IF b = None THEN set_budget(budget_str) ELSE b
        spent == total_expenses(expenses)
    IN  IF bb = None
            THEN [budget |-> None, msg |-> "invalid budget",
                  spent |-> None, remaining |-> None]
        ELSE IF FGt(spent, bb)
            THEN [budget |-> bb, msg |-> "exceeded",
                  spent |-> spent, remaining |-> None]
        ELSE [budget |-> bb, msg |-> "left",
              spent |-> spent, remaining |-> round2(FSub(bb, spent))]

-----------------------------------------------------------------------------
\* Persistence.

NoFile == [exists |-> FALSE, header |-> <<>>, rows |-> <<>>]

CsvRow(exp) == <<exp.date, exp.category, format2f(exp.amount), exp.description>>

RECURSIVE CsvRows(_)
CsvRows(expenses) ==
    IF expenses = <<>> THEN <<>>
    ELSE LET exp == Head(expenses)
         IN  IF is_complete_expense(exp)
                 THEN <<CsvRow(exp)>> \o CsvRows(Tail(expenses))
                 ELSE CsvRows(Tail(expenses))

\* save_expenses opening the file with mode "a".
save_expenses_Appends(expenses, f, canOpen) ==
    IF ~canOpen THEN [file |-> f, raised |-> TRUE]
    ELSE [file |-> [exists |-> TRUE, header |-> CSV_HEADERS,
                    rows |-> f.rows \o CsvRows(expenses)],
          raised |-> FALSE]

\* save_expenses: open(filename, "w") either raises, leaving the file as it
\* was, or truncates it; the header and the rows are then written.
save_expenses(expenses, f, canOpen) ==
    IF ~canOpen THEN [file |-> f, raised |-> TRUE]
    ELSE [file |-> [exists |-> TRUE, header |-> CSV_HEADERS, rows |-> CsvRows(expenses)],
          raised |-> FALSE]

\* row.get(name) or "" of csv.DictReader: the cell under the header's column
\* of that name, the empty text when there is none.
Cell(header, row, name, empty) ==
    IF \E i \in 1..Len(header) : header[i] = name /\ i <= Len(row)
        THEN row[CHOOSE i \in 1..Len(header) : header[i] = name /\ i <= Len(row)]
        ELSE empty

\* load_expenses leaving the loop at the first row it rejects.
RECURSIVE LoadRows_StopsAtBadRow(_, _)
LoadRows_StopsAtBadRow(header, rows) ==
    IF rows = <<>> THEN <<>>
    ELSE LET row == Head(rows)
             date == Cell(header, row, "date", <<>>)
             category == strip(Cell(header, row, "category", <<>>))
             amount_str == Cell(header, row, "amount", Word(""))
             description == strip(Cell(header, row, "description", <<>>))
         IN  IF date = <<>> \/ category = <<>> \/ amount_str = Word("")
                  \/ description = <<>>
                 THEN <<>>
             ELSE IF ~is_valid_date(date) THEN <<>>
             ELSE IF ~ParsesAsFloat(amount_str) THEN <<>>
             ELSE <<[date |-> date,
                     category |-> category,
                     amount |-> round2(float(amount_str)),
                     description |-> description]>>
                  \o LoadRows_StopsAtBadRow(header, Tail(rows))

RECURSIVE LoadRows(_, _)
LoadRows(header, rows) ==
    IF rows = <<>> THEN <<>>
    ELSE LET row == Head(rows)
             date == Cell(header, row, "date", <<>>)
             category == strip(Cell(header, row, "category", <<>>))
             amount_str == Cell(header, row, "amount", Word(""))
             description == strip(Cell(header, row, "description", <<>>))
             rest == LoadRows(header, Tail(rows))
         IN  IF date = <<>> \/ category = <<>> \/ amount_str = Word("")
                  \/ description = <<>>
                 THEN rest
             ELSE IF ~is_valid_date(date) THEN rest
             ELSE IF ~ParsesAsFloat(amount_str) THEN rest
             ELSE <<[date |-> date,
                     category |-> category,
                     amount |-> round2(float(amount_str)),
                     description |-> description]>> \o rest

\* load_expenses: rowsRead is the number of rows the reader delivered before
\* a read failure, all of them when the read completes.
load_expenses(f, rowsRead) ==
    IF ~f.exists THEN <<>>
    ELSE LoadRows(f.header, SubSeq(f.rows, 1, rowsRead))

-----------------------------------------------------------------------------
\* Inputs.

DateInputs == {<<2024, 2, 29>>, <<2023, 2, 29>>, <<2024, 13, 1>>, <<2024, 3>>, <<>>}

TextInputs == {<<>>, <<" ">>, <<" ", "F">>, <<"F", " ">>}

AmountInputs ==
    {Word(""), Word("abc"), Dec(-5, 0), Dec(0, 0), Dec(4, 3), Dec(12125, 3), Word("nan")}

\* add_expense asks for the category, the amount and the description only
\* when the answers before passed their checks; a prompt that is not reached
\* reads nothing.
CategoryInputs(date) == IF is_valid_date(date) THEN TextInputs ELSE {<<>>}

AmountInputsAfter(date, category) ==
    IF is_valid_date(date) /\ strip(category) # <<>> THEN AmountInputs ELSE {Word("")}

DescriptionInputs(date, category, amount_str) ==
    IF /\ is_valid_date(date)
       /\ strip(category) # <<>>
       /\ ParsesAsFloat(amount_str)
       /\ ~FLe(float(amount_str), Num(0))
        THEN TextInputs
        ELSE {<<>>}

BudgetInputs == {Word(""), Word("abc"), Dec(0, 0), Dec(-5, 0), Dec(12124, 3), Word("nan")}

\* Rows a file found at startup may hold.
FileRows ==
    {<<<<2024, 3, 1>>, <<" ", "F">>, Dec(75, 1), <<"L", " ">>>>,
     <<<<2024, 3, 1>>, <<" ">>, Dec(75, 1), <<"L">>>>,
     <<<<2023, 2, 29>>, <<"F">>, Dec(75, 1), <<"L">>>>,
     <<<<2024, 3, 1>>, <<"F">>, Word("abc"), <<"L">>>>,
     <<<<2024, 3, 2>>, <<"F">>, Dec(-5, 0), <<"L">>>>}

\* A file whose header names none of the columns.
ForeignFile ==
    [exists |-> TRUE,
     header |-> <<"Date", "Category", "Amount", "Description">>,
     rows |-> <<<<<<2024, 3, 1>>, <<"F">>, Dec(75, 1), <<"L">>>>>>]

RECURSIVE SeqsUpTo(_, _)
SeqsUpTo(S, n) ==
    IF n = 0 THEN {<<>>}
    ELSE LET shorter == SeqsUpTo(S, n - 1)
         IN  shorter \cup {Append(s, x) : s \in shorter, x \in S}

\* The files load_expenses is examined on.
LoadFiles ==
    {NoFile, [exists |-> TRUE, header |-> <<>>, rows |-> <<>>], ForeignFile}
    \cup {[exists |-> TRUE, header |-> CSV_HEADERS, rows |-> r] :
              r \in SeqsUpTo(FileRows, MaxFileRows)}

\* The files a run of the whole process starts from: none, or what an
\* earlier run saved.
SavedRows == {<<<<2024, 3, 1>>, <<"F">>, Dec(750, 2), <<"L">>>>}

InitialFiles ==
    {NoFile}
    \cup {[exists |-> TRUE, header |-> CSV_HEADERS, rows |-> r] :
              r \in SeqsUpTo(SavedRows, 1)}

-----------------------------------------------------------------------------
\* The process.

IO(op, msg) ==
    [op |-> op, msg |-> msg, input |-> Word(""), spent |-> None,
     remaining |-> None, shown |-> {}, skipped |-> {}]

Init ==
    /\ ledger = <<>>
    /\ budget = None
    /\ file \in InitialFiles
    /\ pc = "start"
    /\ io = IO("none", "")

\* main, lines 193-197: the startup load.
Startup ==
    /\ pc = "start"
    /\ \E rowsRead \in 0..Len(file.rows) :
          /\ ledger' = load_expenses(file, rowsRead)
          /\ io' = IO("load", IF file.exists /\ rowsRead < Len(file.rows)
                                  THEN "Failed to load expenses" ELSE "")
    /\ pc' = "menu"
    /\ UNCHANGED <<budget, file>>

\* choice "1"
AddExpense ==
    /\ pc = "menu"
    /\ \E date \in DateInputs :
       \E category \in CategoryInputs(date) :
       \E amount_str \in AmountInputsAfter(date, category) :
       \E description \in DescriptionInputs(date, category, amount_str) :
          LET r == add_expense(ledger, date, category, amount_str, description)
          IN  /\ Len(r.expenses) <= MaxLedger
              /\ ledger' = r.expenses
              /\ io' = IO("add", r.msg)
    /\ UNCHANGED <<budget, file, pc>>

\* choice "2"
ViewExpenses ==
    /\ pc = "menu"
    /\ LET r == view_expenses(ledger)
       IN  io' = [IO("view", r.msg) EXCEPT !.shown = r.shown, !.skipped = r.skipped]
    /\ UNCHANGED <<ledger, budget, file, pc>>

\* choice "3"
TrackBudget ==
    /\ pc = "menu"
    /\ \E budget_str \in BudgetInputs :
          LET r == track_budget(ledger, budget, budget_str)
          IN  /\ budget' = r.budget
              /\ io' = [IO("track", r.msg) EXCEPT
                            !.input = IF budget = None THEN budget_str ELSE Word(""),
                            !.spent = r.spent,
                            !.remaining = r.remaining]
    /\ UNCHANGED <<ledger, file, pc>>

\* choice "4": an exception raised by open leaves main.
SaveExpenses ==
    /\ pc = "menu"
    /\ \E canOpen \in BOOLEAN :
          LET r == save_expenses(ledger, file, canOpen)
          IN  /\ file' = r.file
              /\ pc' = IF r.raised THEN "crashed" ELSE "menu"
              /\ io' = IO("save", IF r.raised THEN "Traceback" ELSE "Expenses saved")
    /\ UNCHANGED <<ledger, budget>>

\* choice "5"
Exit ==
    /\ pc = "menu"
    /\ \E canOpen \in BOOLEAN :
          LET r == save_expenses(ledger, file, canOpen)
          IN  /\ file' = r.file
              /\ pc' = IF r.raised THEN "crashed" ELSE "exited"
              /\ io' = IO("exit", IF r.raised THEN "Traceback" ELSE "Goodbye")
    /\ UNCHANGED <<ledger, budget>>

\* any other choice
InvalidOption ==
    /\ pc = "menu"
    /\ io' = IO("invalid", "Invalid option")
    /\ UNCHANGED <<ledger, budget, file, pc>>

Next ==
    \/ Startup
    \/ AddExpense
    \/ ViewExpenses
    \/ TrackBudget
    \/ SaveExpenses
    \/ Exit
    \/ InvalidOption

Spec == Init /\ [][Next]_vars

\* load_expenses alone, on every file of LoadFiles.
InitLoad ==
    /\ ledger = <<>>
    /\ budget = None
    /\ file \in LoadFiles
    /\ pc = "start"
    /\ io = IO("none", "")

SpecLoad == InitLoad /\ [][Startup]_vars

-----------------------------------------------------------------------------
\* Properties.

Saved == io.op \in {"save", "exit"} /\ io.msg # "Traceback"

Added == io.op = "add" /\ io.msg = "Expense added successfully"

\* The text txt writes the float a with exactly two fractional digits.
WrittenWithTwoDigits(txt, a) ==
    IF a.k = "num"
        THEN txt.t = "dec" /\ txt.scale = 2 /\ txt.n * 10 = RoundMills(a.v)
        ELSE ParsesAsFloat(txt) /\ float(txt) = a

\* The four columns of a row, looked up by name and trimmed.
Columns(header, row) ==
    [date |-> Cell(header, row, "date", <<>>),
     category |-> strip(Cell(header, row, "category", <<>>)),
     amount |-> Cell(header, row, "amount", Word("")),
     description |-> strip(Cell(header, row, "description", <<>>))]

Accepted(header, row) ==
    LET c == Columns(header, row)
    IN  /\ c.date # <<>>
        /\ c.category # <<>>
        /\ c.amount # Word("")
        /\ c.description # <<>>
        /\ is_valid_date(c.date)
        /\ ParsesAsFloat(c.amount)

AcceptedHere(row) == Accepted(file.header, row)

\* The sum of the amounts of all the records, complete or not.
RECURSIVE SumAll(_)
SumAll(expenses) ==
    IF expenses = <<>> THEN Num(0)
    ELSE FAdd(SumAll(SubSeq(expenses, 1, Len(expenses) - 1)),
              expenses[Len(expenses)].amount)

IsPrefix(s, t) == Len(s) <= Len(t) /\ SubSeq(t, 1, Len(s)) = s

\* C1: after a save of a ledger of complete records with amounts > 0, loading
\* the file that was written returns a sequence of the same length and order
\* in which each record has the amount rounded to 2 decimals and the date,
\* category and description of the original.
C1_RoundTrip ==
    (/\ Saved
     /\ \A i \in 1..Len(ledger) :
           is_complete_expense(ledger[i]) /\ FGt(ledger[i].amount, Num(0)))
    => LET back == load_expenses(file, Len(file.rows))
       IN  /\ Len(back) = Len(ledger)
           /\ \A i \in 1..Len(ledger) :
                 /\ back[i].amount = round2(ledger[i].amount)
                 /\ back[i].date = ledger[i].date
                 /\ back[i].category = ledger[i].category
                 /\ back[i].description = ledger[i].description

C1_Witness ==
    /\ Saved
    /\ Len(ledger) = 2
    /\ ledger[1].amount = Num(7500)
    /\ ledger[2].amount = Num(12120)

\* C2: a save whose file cannot be opened for writing does not crash the
\* process.
C2_SaveFailureNotFatal == pc # "crashed"

\* C3: an add that fails a validation changes neither the ledger nor the
\* budget nor the file, and control stays in the menu loop.
C3_FailedAddChangesNothing ==
    [][(io'.op = "add" /\ io'.msg # "Expense added successfully")
        => (ledger' = ledger /\ budget' = budget /\ file' = file /\ pc' = "menu")]_vars

C3_Witness ==
    /\ io.op = "add"
    /\ io.msg = "Description cannot be empty"
    /\ Len(ledger) = 1
    /\ budget # None

\* C4: every record of the ledger has an amount that is strictly positive
\* and has at most 2 fractional digits.
C4_AmountsPositiveTwoDigits ==
    \A i \in 1..Len(ledger) :
        /\ ledger[i].amount.k = "num"
        /\ ledger[i].amount.v > 0
        /\ ledger[i].amount.v % 10 = 0

C6_SaveOverwrites ==
    [][(io'.op \in {"save", "exit"} /\ io'.msg # "Traceback")
        => LET complete == SelectSeq(ledger, is_complete_expense)
           IN  /\ ledger' = ledger
               /\ file'.exists
               /\ file'.header = CSV_HEADERS
               /\ Len(file'.rows) = Len(complete)
               /\ \A i \in 1..Len(complete) :
                     /\ Len(file'.rows[i]) = 4
                     /\ file'.rows[i][1] = complete[i].date
                     /\ file'.rows[i][2] = complete[i].category
                     /\ WrittenWithTwoDigits(file'.rows[i][3], complete[i].amount)
                     /\ file'.rows[i][4] = complete[i].description]_vars

C6_Witness ==
    /\ io.op = "save"
    /\ io.msg = "Expenses saved"
    /\ Len(ledger) = 2
    /\ Len(file.rows) = 2

C8_TrackVerdict ==
    (io.op = "track" /\ budget # None)
    => LET total == round2(SumAmounts(ledger))
       IN  /\ io.msg \in {"left", "exceeded"}
           /\ io.msg = "left" <=> FLe(total, budget)
           /\ io.msg = "exceeded" <=> FGt(total, budget)
           /\ io.msg = "left" => io.remaining = round2(FSub(budget, total))

\* C9: once loaded, the ledger only grows at its end: each step leaves the
\* earlier ledger a prefix of the later one, and only a successful add
\* changes it, by exactly one record.
C9_LedgerAppendOnly ==
    [][pc = "menu"
        => /\ IsPrefix(ledger, ledger')
           /\ ledger' # ledger
                => /\ io'.op = "add"
                   /\ io'.msg = "Expense added successfully"
                   /\ Len(ledger') = Len(ledger) + 1]_vars

C9_Witness ==
    /\ Added
    /\ Len(ledger) = 3
    /\ ledger[1].amount = Num(7500)
    /\ ledger[2].amount = Num(12120)
    /\ ledger[3].amount = Num(0)

\* C10: every record of the ledger passes is_complete_expense, so that View
\* reports no skipped index, the total is the sum over all the records, and a
\* successful save writes as many rows as the ledger has records.
C10_AllRecordsComplete ==
    /\ \A i \in 1..Len(ledger) : is_complete_expense(ledger[i])
    /\ io.op = "view" => (io.skipped = {} /\ io.shown = 1..Len(ledger))
    /\ (io.op = "track" /\ io.spent # None) => io.spent = round2(SumAll(ledger))
    /\ Saved => Len(file.rows) = Len(ledger)

C10_Witness ==
    /\ io.op = "view"
    /\ io.shown = {1, 2, 3}

====
